---- MODULE Spec2Model ----
(***************************************************************************)
(* Model of pyvista/core/pointset.py: the constructors of PolyData,        *)
(* UnstructuredGrid and StructuredGrid (dispatch on the types of their     *)
(* arguments, conversion between count-prefixed connectivity arrays and    *)
(* cell dictionaries, consistency checks) and the cell-masking methods     *)
(* PointSet.remove_cells and StructuredGrid.hide_cells.                    *)
(*                                                                         *)
(* A Python value is a record with a "type" field.  An object of one of    *)
(* the mesh classes is a record with a "cls" field.  Every call is one     *)
(* action; it leaves in `call` the arguments and the outcome of the call   *)
(* ("ok" or the name of the exception raised), in `self` the object the    *)
(* call constructed or acted on, and in `ret` the value it returned.       *)
(***************************************************************************)
EXTENDS Integers, Sequences, FiniteSets, TLC

VARIABLES VTK9, self, call, ret

vars == <<VTK9, self, call, ret>>

(***************************************************************************)
(* Bounds of the model.                                                    *)
(***************************************************************************)
MaxPoints == 3
MaxCells == 2
MaxMeshCells == 3
MaxDim == 2
MaxStored == 4

(***************************************************************************)
(* Python values.                                                          *)
(***************************************************************************)
PyNone == [type |-> "NoneType"]

PyInt(n) == [type |-> "int", val |-> n]

PyList(s) == [type |-> "list", ndim |-> 1, dtype |-> "int", val |-> s]

NdArray(s) == [type |-> "ndarray", ndim |-> 1, dtype |-> "int", val |-> s]

NdArray2(rows) == [type |-> "ndarray", ndim |-> 2, dtype |-> "int", val |-> rows]

NoObject == [cls |-> "none"]

NoCall == [op |-> "none", outcome |-> "none"]

\* All sequences over S of length at most n.
SeqsUpTo(S, n) == UNION {[1..k -> S] : k \in 0..n}

RECURSIVE ravel(_)
\* numpy's C-order flattening of a 2-D array given as a sequence of rows.
ravel(rows) == IF rows = <<>> THEN <<>> ELSE Head(rows) \o ravel(Tail(rows))

\* The flat data of a 1-D or 2-D array or list.
flat(a) == IF a.ndim = 2 THEN ravel(a.val) ELSE a.val

\* Truth value of a Python value in `if x:`; numpy refuses to decide for an
\* array of more than one element and raises ValueError.
truth(v) ==
    CASE v.type = "NoneType" -> "False"
      [] v.type = "int" -> IF v.val # 0 THEN "True" ELSE "False"
      [] v.type = "list" -> IF Len(v.val) > 0 THEN "True" ELSE "False"
      [] v.type = "ndarray" ->
            IF Len(flat(v)) > 1 THEN "ValueError"
            ELSE IF Len(flat(v)) = 0 THEN "False"
            ELSE IF v.dtype = "bool"
            THEN (IF flat(v)[1] THEN "True" ELSE "False")
            ELSE (IF flat(v)[1] # 0 THEN "True" ELSE "False")
      [] OTHER -> "True"

(***************************************************************************)
(* Count-prefixed ("padded") connectivity arrays.                          *)
(***************************************************************************)
RECURSIVE count_cells(_)
\* Number of cells of a flat count-prefixed connectivity array.
count_cells(data) ==
    IF data = <<>> THEN 0
    ELSE IF Len(data) < data[1] + 1 THEN 1
    ELSE 1 + count_cells(SubSeq(data, data[1] + 2, Len(data)))

RECURSIVE cell_starts(_, _)
\* Start location (0-based) of each cell of a flat count-prefixed array.
cell_starts(data, at) ==
    IF data = <<>> THEN <<>>
    ELSE IF Len(data) < data[1] + 1 THEN <<at>>
    ELSE <<at>> \o cell_starts(SubSeq(data, data[1] + 2, Len(data)), at + data[1] + 1)

\* pyvista.utilities.cells.CellArray(cells, n_cells, deep): the native cell
\* array.  VTK 9 imports the legacy format and counts the cells itself; older
\* versions keep the count they are handed, and the wrapper counts only when
\* it is handed none.
CellArray(cells, n_cells, deep) ==
    [data |-> flat(cells),
     n_cells |-> IF VTK9 \/ n_cells.type = "NoneType"
                 THEN IF ~VTK9 /\ cells.ndim = 2 THEN Len(cells.val)
                      ELSE count_cells(flat(cells))
                 ELSE n_cells.val]

EmptyCellArray == [data |-> <<>>, n_cells |-> 0]

\* pyvista.vtk_points(points, deep): the native points of a points array.
vtk_points(points, deep) == points.val

(***************************************************************************)
(* PolyData                                                                *)
(***************************************************************************)
\* The object after vtkPolyData's own constructor.
NewPolyData ==
    [cls |-> "PolyData", points |-> <<>>, verts |-> EmptyCellArray,
     lines |-> EmptyCellArray, faces |-> EmptyCellArray]

n_points(mesh) == Len(mesh.points)

PolyData_n_cells(mesh) == mesh.verts.n_cells + mesh.lines.n_cells + mesh.faces.n_cells

make_vertex_cells_from_one(npoints) == NdArray2([i \in 1..npoints |-> <<1, i>>])

make_vertex_cells(npoints) == NdArray2([i \in 1..npoints |-> <<1, i - 1>>])

\* The getters verts, lines and faces: the flat data of the native cell arrays.
verts(mesh) == mesh.verts.data

lines(mesh) == mesh.lines.data

faces(mesh) == mesh.faces.data

\* is_all_triangles looking at the size of the faces array alone.
is_all_triangles_by_size(mesh) ==
    IF Len(faces(mesh)) = 0 \/ Len(lines(mesh)) > 0 \/ Len(verts(mesh)) > 0
    THEN FALSE
    ELSE Len(faces(mesh)) % 4 = 0

\* PolyData.is_all_triangles(): `faces.reshape(-1, 4)[:, 0]` is every fourth
\* entry of the faces array, from the first.
is_all_triangles(mesh) ==
    IF Len(faces(mesh)) = 0 \/ Len(lines(mesh)) > 0 \/ Len(verts(mesh)) > 0
    THEN FALSE
    ELSE /\ Len(faces(mesh)) % 4 = 0
         /\ \A r \in 0..((Len(faces(mesh)) \div 4) - 1) : faces(mesh)[4 * r + 1] = 3

RECURSIVE other_args_set(_, _)
\* The loop `for kwarg in ['faces', 'n_faces', 'lines']: if local_parms[kwarg]:
\* raise ValueError`: TRUE when the loop raises (the truth test of an array of
\* more than one element raises ValueError itself).
other_args_set(kwargs, local_parms) ==
    IF kwargs = <<>> THEN FALSE
    ELSE IF truth(local_parms[Head(kwargs)]) # "False" THEN TRUE
    ELSE other_args_set(Tail(kwargs), local_parms)

CheckedKwargs == <<"faces", "n_faces", "lines">>

Raised(exc) == [outcome |-> exc, self |-> NoObject, io |-> "none"]

Returned(obj, io) == [outcome |-> "ok", self |-> obj, io |-> io]

\* DataObject._from_file: the mesh the reader produces for the file.
from_file(filename) == filename.mesh

\* deep_copy / shallow_copy of a source mesh into the new object.
copy_of(source) == source.mesh

\* Lines 254-267: add faces and/or lines once the points are set up.
add_cells(mesh, faces_, n_faces, lines_, n_lines, deep) ==
    LET m1 == IF faces_.type = "NoneType" /\ lines_.type = "NoneType"
              THEN [mesh EXCEPT !.verts =
                      CellArray(make_vertex_cells(n_points(mesh)),
                                PyInt(n_points(mesh)), deep)]
              ELSE IF faces_.type # "NoneType"
              THEN [mesh EXCEPT !.faces = CellArray(faces_, n_faces, deep)]
              ELSE mesh
        m2 == IF lines_.type # "NoneType"
              THEN [m1 EXCEPT !.lines = CellArray(lines_, n_lines, deep)]
              ELSE m1
    IN m2

\* PolyData.__init__(var_inp, faces, n_faces, lines, n_lines, deep).
PolyData_init(var_inp, faces_, n_faces, lines_, n_lines, deep) ==
    LET local_parms == [faces |-> faces_, n_faces |-> n_faces, lines |-> lines_]
    IN IF var_inp.type = "NoneType" THEN Returned(NewPolyData, "none")
       ELSE IF var_inp.type \in {"str", "Path"} THEN
            IF other_args_set(CheckedKwargs, local_parms) THEN Raised("ValueError")
            ELSE LET m == from_file(var_inp)
                 IN IF n_points(m) > 0 /\ PolyData_n_cells(m) = 0
                    THEN Returned([m EXCEPT !.verts =
                                     CellArray(make_vertex_cells(n_points(m)),
                                               PyInt(n_points(m)), deep)],
                                  "from_file")
                    ELSE Returned(m, "from_file")
       ELSE IF var_inp.type \in {"PolyData", "vtkPolyData"} THEN
            IF other_args_set(CheckedKwargs, local_parms) THEN Raised("ValueError")
            ELSE Returned(copy_of(var_inp),
                          IF deep THEN "deep_copy" ELSE "shallow_copy")
       ELSE IF var_inp.type \in {"ndarray", "list"} THEN
            Returned(add_cells([NewPolyData EXCEPT !.points = vtk_points(var_inp, deep)],
                               faces_, n_faces, lines_, n_lines, deep),
                     "none")
       ELSE \* line 246 builds the TypeError and drops it: execution continues
            Returned(add_cells(NewPolyData, faces_, n_faces, lines_, n_lines, deep),
                     "none")

\* ---- arguments tried ----
Pts(n) == [i \in 1..n |-> <<i - 1, 0, 0>>]

PointArrays == {NdArray2(Pts(n)) : n \in 0..MaxPoints}
                 \cup {[type |-> "list", ndim |-> 2, dtype |-> "int", val |-> Pts(n)] :
                          n \in 0..MaxPoints}

TriMesh ==
    [NewPolyData EXCEPT !.points = Pts(3),
                        !.faces = [data |-> <<3, 0, 1, 2>>, n_cells |-> 1]]

CloudMesh(n) == [NewPolyData EXCEPT !.points = Pts(n)]

\* A triangle together with a vertex cell.
TriVertMesh == [TriMesh EXCEPT !.verts = [data |-> <<1, 0>>, n_cells |-> 1]]

StoredPolyData ==
    {NewPolyData, TriMesh, TriVertMesh} \cup {CloudMesh(n) : n \in 1..MaxPoints}

PolyDataVarInps ==
    {PyNone}
      \cup {[type |-> t, mesh |-> m] :
               t \in {"str", "Path", "PolyData", "vtkPolyData"}, m \in StoredPolyData}
      \cup PointArrays
      \cup {PyInt(5), [type |-> "float"], [type |-> "tuple"], [type |-> "dict"]}

\* Faces arrays tried: triangles, a quad, and polygons of point index 3 alone
\* and behind a triangle.
FaceData ==
    {<<0>>, <<3, 0, 1, 2>>, <<3, 0, 1, 2, 3, 0, 2, 1>>, <<4, 0, 1, 2, 2>>,
     <<7, 3, 3, 3, 3, 3, 3, 3>>, <<3, 0, 1, 2, 4, 3, 3, 3, 3>>,
     <<3, 0, 1, 2, 7, 3, 3, 3, 3, 3, 3, 3>>}

FaceArgs == {PyNone, PyList(<<>>)} \cup {NdArray(d) : d \in FaceData}
              \cup {PyList(<<3, 0, 1, 2>>)}

LineData == {<<2, 0, 1>>, <<2, 0, 1, 2, 1, 2>>}

LineArgs == {PyNone, PyList(<<>>)} \cup {NdArray(d) : d \in LineData}

CountArgs == {PyNone} \cup {PyInt(n) : n \in 0..MaxCells}

PolyData__init__ ==
    /\ self.cls = "none"
    /\ call.op = "none"
    /\ \E var_inp \in PolyDataVarInps, faces_ \in FaceArgs, n_faces \in CountArgs,
       lines_ \in LineArgs, n_lines \in CountArgs, deep \in BOOLEAN :
        LET r == PolyData_init(var_inp, faces_, n_faces, lines_, n_lines, deep)
        IN /\ self' = r.self
           /\ call' = [op |-> "PolyData", var_inp |-> var_inp, faces |-> faces_,
                       n_faces |-> n_faces, lines |-> lines_, n_lines |-> n_lines,
                       deep |-> deep, outcome |-> r.outcome, io |-> r.io]
           /\ ret' = PyNone
           /\ UNCHANGED VTK9

\* The setters of verts, lines and faces (lines 289-295, 302-308, 315-321): a
\* CellArray is set as it is, anything else through CellArray(value).
set_cells(value) ==
    IF value.type = "CellArray" THEN value.array ELSE CellArray(value, PyNone, FALSE)

\* The values assigned to verts, lines and faces.
SetterValues ==
    {NdArray(<<>>), NdArray(<<3, 0, 1, 2>>), NdArray(<<4, 0, 1, 2, 2>>),
     [type |-> "CellArray",
      array |-> [data |-> <<3, 0, 1, 2, 3, 0, 2, 1>>, n_cells |-> 2]]}

\* An assignment to verts, lines or faces of the mesh constructed.
PolyData_set_cells ==
    /\ self.cls = "PolyData"
    /\ call.op = "PolyData"
    /\ \E attr \in {"verts", "lines", "faces"}, value \in SetterValues :
          /\ self' = CASE attr = "verts" -> [self EXCEPT !.verts = set_cells(value)]
                       [] attr = "lines" -> [self EXCEPT !.lines = set_cells(value)]
                       [] attr = "faces" -> [self EXCEPT !.faces = set_cells(value)]
          /\ call' = [op |-> attr, value |-> value, outcome |-> "ok"]
          /\ ret' = PyNone
          /\ UNCHANGED VTK9

\* A call of is_all_triangles on the mesh constructed, or once its cells have
\* been set or it has been overwritten by shallow_copy.
PolyData_is_all_triangles ==
    /\ self.cls = "PolyData"
    /\ call.op \in {"PolyData", "verts", "lines", "faces", "shallow_copy"}
    /\ ret' = [type |-> "bool", val |-> is_all_triangles(self)]
    /\ call' = [op |-> "is_all_triangles", outcome |-> "ok", made |-> call]
    /\ UNCHANGED <<VTK9, self>>

(***************************************************************************)
(* numpy index assignment and the ghost-cell array                         *)
(***************************************************************************)
DUPLICATECELL == 1

HIDDENCELL == 32

GhostArrayName == "vtkGhostType"

\* A dataset's cell_arrays holding no array.
NoArrays == [name \in {} |-> <<>>]

\* np.zeros(n, np.uint8)
zeros(n) == [i \in 1..n |-> 0]

\* An empty Python list: as an index it selects nothing, whatever the length
\* of the array.
empty_list(ind) == ind.type = "list" /\ ind.val = <<>>

\* The positions (1-based) that `arr[ind] = value` writes, arr of length n: a
\* boolean index is a mask, an integer index counts from the end when negative.
selected(ind, n) ==
    IF empty_list(ind) THEN {}
    ELSE IF ind.dtype = "bool"
    THEN {i \in 1..n : ind.val[i]}
    ELSE {(IF ind.val[k] < 0 THEN ind.val[k] + n ELSE ind.val[k]) + 1 :
             k \in 1..Len(ind.val)}

\* `arr[ind] = value`: numpy raises IndexError for a boolean index of another
\* length than arr and for an integer index outside -n .. n-1.
setitem(arr, ind, value) ==
    LET n == Len(arr)
    IN IF ind.dtype = "bool" /\ Len(ind.val) # n /\ ~empty_list(ind)
       THEN [outcome |-> "IndexError", arr |-> arr]
       ELSE IF ind.dtype = "int"
               /\ \E k \in 1..Len(ind.val) : ind.val[k] < -n \/ ind.val[k] >= n
       THEN [outcome |-> "IndexError", arr |-> arr]
       ELSE [outcome |-> "ok",
             arr |-> [i \in 1..n |-> IF i \in selected(ind, n) THEN value ELSE arr[i]]]

\* dataset.cell_arrays[name] = array
set_cell_array(mesh, name, array) ==
    [mesh EXCEPT !.cell_arrays =
        [nm \in (DOMAIN mesh.cell_arrays) \cup {name} |->
            IF nm = name THEN array ELSE mesh.cell_arrays[nm]]]

RECURSIVE keep_where(_, _)
\* The entries of seq at the positions where flags is TRUE, in order.
keep_where(seq, flags) ==
    IF seq = <<>> THEN <<>>
    ELSE (IF Head(flags) THEN <<Head(seq)>> ELSE <<>>) \o keep_where(Tail(seq), Tail(flags))

(***************************************************************************)
(* PointSet.remove_cells                                                   *)
(***************************************************************************)
\* A mesh of the PointSet family by its cells: cells[i] names the i-th cell.
PointSetMesh(cells) == [cls |-> "PointSet", cells |-> cells, cell_arrays |-> NoArrays]

n_cells(mesh) == Len(mesh.cells)

\* DataSet.copy(): a new object with the same content.
copy(mesh) == mesh

\* The native RemoveGhostCells: drops every cell whose ghost value has the
\* DUPLICATECELL bit set.  Depending on the native version the ghost array is
\* afterwards dropped from the cell arrays or kept for the cells that remain.
RemoveGhostCells(mesh, kept) ==
    IF GhostArrayName \notin DOMAIN mesh.cell_arrays THEN mesh
    ELSE LET ghost == mesh.cell_arrays[GhostArrayName]
             stay == [i \in 1..Len(ghost) |-> (ghost[i] % 2) = 0]
         IN [mesh EXCEPT
               !.cells = keep_where(mesh.cells, stay),
               !.cell_arrays =
                   IF kept
                   THEN [nm \in DOMAIN mesh.cell_arrays |->
                            keep_where(mesh.cell_arrays[nm], stay)]
                   ELSE [nm \in (DOMAIN mesh.cell_arrays) \ {GhostArrayName} |->
                            keep_where(mesh.cell_arrays[nm], stay)]]

\* remove_cells without the size check of lines 79-82.
remove_cells_unchecked(mesh, ind, inplace, kept) ==
    LET marked == setitem(zeros(n_cells(mesh)), ind, DUPLICATECELL)
        target == IF inplace THEN mesh ELSE copy(mesh)
        emptied == RemoveGhostCells(
                       set_cell_array(target, GhostArrayName, marked.arr), kept)
    IN IF marked.outcome # "ok"
       THEN [outcome |-> marked.outcome, self |-> mesh, ret |-> PyNone]
       ELSE IF inplace
       THEN [outcome |-> "ok", self |-> emptied, ret |-> PyNone]
       ELSE [outcome |-> "ok", self |-> mesh, ret |-> emptied]

\* remove_cells with `target = self` whatever inplace is.
remove_cells_on_self(mesh, ind, inplace, kept) ==
    IF ind.type = "ndarray" /\ ind.dtype = "bool" /\ Len(ind.val) # n_cells(mesh)
    THEN [outcome |-> "ValueError", self |-> mesh, ret |-> PyNone]
    ELSE LET marked == setitem(zeros(n_cells(mesh)), ind, DUPLICATECELL)
             emptied == RemoveGhostCells(
                            set_cell_array(mesh, GhostArrayName, marked.arr), kept)
         IN IF marked.outcome # "ok"
            THEN [outcome |-> marked.outcome, self |-> mesh, ret |-> PyNone]
            ELSE IF inplace
            THEN [outcome |-> "ok", self |-> emptied, ret |-> PyNone]
            ELSE [outcome |-> "ok", self |-> emptied, ret |-> emptied]

\* remove_cells marking the cells HIDDENCELL, as hide_cells does.
remove_cells_hiding(mesh, ind, inplace, kept) ==
    IF ind.type = "ndarray" /\ ind.dtype = "bool" /\ Len(ind.val) # n_cells(mesh)
    THEN [outcome |-> "ValueError", self |-> mesh, ret |-> PyNone]
    ELSE LET marked == setitem(zeros(n_cells(mesh)), ind, HIDDENCELL)
             target == IF inplace THEN mesh ELSE copy(mesh)
             emptied == RemoveGhostCells(
                            set_cell_array(target, GhostArrayName, marked.arr), kept)
         IN IF marked.outcome # "ok"
            THEN [outcome |-> marked.outcome, self |-> mesh, ret |-> PyNone]
            ELSE IF inplace
            THEN [outcome |-> "ok", self |-> emptied, ret |-> PyNone]
            ELSE [outcome |-> "ok", self |-> mesh, ret |-> emptied]

\* PointSet.remove_cells(ind, inplace)
remove_cells(mesh, ind, inplace, kept) ==
    IF ind.type = "ndarray" /\ ind.dtype = "bool" /\ Len(ind.val) # n_cells(mesh)
    THEN [outcome |-> "ValueError", self |-> mesh, ret |-> PyNone]
    ELSE LET marked == setitem(zeros(n_cells(mesh)), ind, DUPLICATECELL)
             target == IF inplace THEN mesh ELSE copy(mesh)
             emptied == RemoveGhostCells(
                            set_cell_array(target, GhostArrayName, marked.arr), kept)
         IN IF marked.outcome # "ok"
            THEN [outcome |-> marked.outcome, self |-> mesh, ret |-> PyNone]
            ELSE IF inplace
            THEN [outcome |-> "ok", self |-> emptied, ret |-> PyNone]
            ELSE [outcome |-> "ok", self |-> mesh, ret |-> emptied]

\* ---- arguments tried ----
\* Integer indices tried on a mesh of n cells: the valid ones, one counted from
\* the end and one past the end.
IndexValues(n) == (-1)..n

\* Integer index arrays of no, one or two entries: an index, with itself, with
\* the next one or with the first one.
IndexData(n) == {<<>>} \cup {<<i>> : i \in IndexValues(n)}
                  \cup UNION {{<<i, i>>, <<i, i + 1>>, <<i, 0>>} : i \in IndexValues(n)}

\* Boolean masks tried on a mesh of n cells, of n entries, one fewer and one
\* more: all entries alike, or all but one.
MaskData(n) ==
    UNION {{[i \in 1..k |-> b] : b \in BOOLEAN}
             \cup {[i \in 1..k |-> IF i = p THEN b ELSE ~b] : p \in 1..k, b \in BOOLEAN} :
           k \in {n - 1, n, n + 1} \cap Nat}

IndexArgs(n) ==
    {[type |-> t, ndim |-> 1, dtype |-> "int", val |-> d] :
        t \in {"ndarray", "list"}, d \in IndexData(n)}

\* Boolean arrays, and lists of booleans (a list without entries is no list of
\* booleans: it is among the integer indices).
MaskArgs(n) ==
    {[type |-> "ndarray", ndim |-> 1, dtype |-> "bool", val |-> d] : d \in MaskData(n)}
      \cup {[type |-> "list", ndim |-> 1, dtype |-> "bool", val |-> d] :
               d \in MaskData(n) \ {<<>>}}

PointSetMeshes == {PointSetMesh([i \in 1..n |-> i]) : n \in 0..MaxMeshCells}

RemoveCellsCall(ind, inplace, kept) ==
    LET r == remove_cells(self, ind, inplace, kept)
    IN /\ self' = r.self
       /\ call' = [op |-> "remove_cells", ind |-> ind, inplace |-> inplace,
                   outcome |-> r.outcome, before |-> self]
       /\ ret' = r.ret
       /\ UNCHANGED VTK9

\* A call of remove_cells on the mesh; a further call is followed up only once
\* the mesh has been updated in place.
PointSet_remove_cells ==
    /\ self.cls = "PointSet"
    /\ call.op = "none" \/ (call.outcome = "ok" /\ call.inplace)
    /\ \E inplace \in BOOLEAN, kept \in BOOLEAN :
          \/ \E ind \in IndexArgs(n_cells(self)) : RemoveCellsCall(ind, inplace, kept)
          \/ \E ind \in MaskArgs(n_cells(self)) : RemoveCellsCall(ind, inplace, kept)

(***************************************************************************)
(* StructuredGrid                                                          *)
(***************************************************************************)
\* The object after vtkStructuredGrid's own constructor; points_dtype is the
\* dtype of the points array.
NewStructuredGrid ==
    [cls |-> "StructuredGrid", dimensions |-> <<0, 0, 0>>, points |-> <<>>,
     points_dtype |-> "float", cell_arrays |-> NoArrays]

\* An n-dimensional numpy array: its shape and its elements in C order.
\* Coordinates are counted in halves: 2 is 1.0 and 3 is 1.5, so that an array
\* of integer dtype holds even numbers only.
ShapedArray(shape, val) ==
    [type |-> "ndarray", ndim |-> Len(shape), dtype |-> "int", shape |-> shape,
     val |-> val]

\* Assignment into an array of the given dtype (lines 935-938): numpy casts the
\* values, a cast to an integer dtype drops the fraction.
astype(val, dtype) ==
    IF dtype = "int"
    THEN [i \in 1..Len(val) |->
             IF val[i] >= 0 THEN 2 * (val[i] \div 2) ELSE -(2 * ((-val[i]) \div 2))]
    ELSE val

\* The shape with trailing 1s up to three axes (lines 941-943).
pad3(shape) == shape \o [i \in 1..(3 - Len(shape)) |-> 1]

\* a.ravel('F'): the elements with the first axis varying fastest.
ravel_F(a) ==
    LET d == pad3(a.shape)
    IN [f \in 1..Len(a.val) |->
          LET i == (f - 1) % d[1]
              j == ((f - 1) \div d[1]) % d[2]
              k == (f - 1) \div (d[1] * d[2])
          IN a.val[(i * d[2] + j) * d[3] + k + 1]]

\* Number of cells of a structured grid of the given dimensions.
StructuredGrid_n_cells(grid) ==
    LET d == grid.dimensions
        c(n) == IF n > 1 THEN n - 1 ELSE 1
    IN IF d[1] = 0 \/ d[2] = 0 \/ d[3] = 0 THEN 0 ELSE c(d[1]) * c(d[2]) * c(d[3])

\* StructuredGrid._from_arrays(x, y, z)
StructuredGrid_from_arrays(grid, x, y, z) ==
    IF ~(x.shape = y.shape /\ y.shape = z.shape)
    THEN Raised("ValueError")
    ELSE LET px == astype(ravel_F(x), x.dtype)
             py == astype(ravel_F(y), x.dtype)
             pz == astype(ravel_F(z), x.dtype)
             points == [i \in 1..Len(x.val) |-> <<px[i], py[i], pz[i]>>]
             dim == pad3(x.shape)
         IN Returned([grid EXCEPT !.dimensions = dim, !.points = points,
                                  !.points_dtype = x.dtype], "none")

\* StructuredGrid.__init__(*args)
StructuredGrid_init(args) ==
    IF Len(args) = 1
    THEN IF args[1].type = "vtkStructuredGrid"
         THEN Returned(copy_of(args[1]), "deep_copy")
         ELSE IF args[1].type = "str"
         THEN Returned(from_file(args[1]), "from_file")
         ELSE Returned(NewStructuredGrid, "none")
    ELSE IF Len(args) = 3
    THEN IF args[1].type = "ndarray" /\ args[2].type = "ndarray"
            /\ args[3].type = "ndarray"
         THEN StructuredGrid_from_arrays(NewStructuredGrid, args[1], args[2], args[3])
         ELSE Returned(NewStructuredGrid, "none")
    ELSE Returned(NewStructuredGrid, "none")

\* hide_cells writing into the ghost array the grid already has instead of a
\* fresh np.zeros array.
hide_cells_accumulating(grid, ind) ==
    IF ind.type = "ndarray" /\ ind.dtype = "bool"
       /\ Len(ind.val) # StructuredGrid_n_cells(grid)
    THEN [outcome |-> "ValueError", self |-> grid]
    ELSE LET old == IF GhostArrayName \in DOMAIN grid.cell_arrays
                    THEN grid.cell_arrays[GhostArrayName]
                    ELSE zeros(StructuredGrid_n_cells(grid))
             marked == setitem(old, ind, HIDDENCELL)
         IN IF marked.outcome # "ok"
            THEN [outcome |-> marked.outcome, self |-> grid]
            ELSE [outcome |-> "ok",
                  self |-> set_cell_array(grid, GhostArrayName, marked.arr)]

\* StructuredGrid.hide_cells(ind)
hide_cells(grid, ind) ==
    IF ind.type = "ndarray" /\ ind.dtype = "bool"
       /\ Len(ind.val) # StructuredGrid_n_cells(grid)
    THEN [outcome |-> "ValueError", self |-> grid]
    ELSE LET marked == setitem(zeros(StructuredGrid_n_cells(grid)), ind, HIDDENCELL)
         IN IF marked.outcome # "ok"
            THEN [outcome |-> marked.outcome, self |-> grid]
            ELSE [outcome |-> "ok",
                  self |-> set_cell_array(grid, GhostArrayName, marked.arr)]

\* StructuredGrid._reshape_point_array(array): array.reshape(dimensions,
\* order='F'), the first axis varying fastest in `array`.
\* numpy raises ValueError when the dimensions do not hold the array; the
\* result keeps the dtype of the points.
reshape_point_array(grid, array) ==
    LET d == grid.dimensions
    IN IF d[1] * d[2] * d[3] # Len(array)
       THEN [outcome |-> "ValueError", val |-> PyNone]
       ELSE [outcome |-> "ok",
             val |-> [ShapedArray(d,
                        [c \in 1..Len(array) |->
                           LET k == (c - 1) % d[3]
                               j == ((c - 1) \div d[3]) % d[2]
                               i == (c - 1) \div (d[2] * d[3])
                           IN array[i + d[1] * j + d[1] * d[2] * k + 1]])
                        EXCEPT !.dtype = grid.points_dtype]]

\* self.points[:, axis]
points_column(grid, axis) == [p \in 1..Len(grid.points) |-> grid.points[p][axis]]

\* The properties StructuredGrid.x, .y and .z
StructuredGrid_x(grid) == reshape_point_array(grid, points_column(grid, 1))

StructuredGrid_y(grid) == reshape_point_array(grid, points_column(grid, 2))

StructuredGrid_z(grid) == reshape_point_array(grid, points_column(grid, 3))

\* ---- arguments tried ----
Shapes == UNION {[1..k -> 1..MaxDim] : k \in 1..3}

size(shape) == LET d == pad3(shape) IN d[1] * d[2] * d[3]

DTypes == {"int", "float"}

\* The coordinate arrays tried: element c (in C order) of the array is base + c
\* when the dtype is integer and base + c + 0.5 when it is floating point.
GridArray(shape, base, dtype) ==
    [ShapedArray(shape, [c \in 1..size(shape) |->
                           2 * (base + c) + (IF dtype = "float" THEN 1 ELSE 0)])
       EXCEPT !.dtype = dtype]

GridArrays(base) == {GridArray(shape, base, "int") : shape \in Shapes}

\* The shapes tried beside a shape: itself, its first axis alone, and itself
\* with one more axis of length 1.
LikeShapes(shape) ==
    {shape, <<shape[1]>>} \cup (IF Len(shape) < 3 THEN {shape \o <<1>>} ELSE {})

\* A stored grid of nx points along a line (nx - 1 cells, one when nx is 1).
StoredGrid(nx) ==
    [NewStructuredGrid EXCEPT !.dimensions = <<nx, 1, 1>>, !.points = Pts(nx)]

StoredGrids == {StoredGrid(nx) : nx \in 1..MaxStored} \cup {NewStructuredGrid}

OtherValues ==
    {PyNone, PyInt(5), PyList(<<0, 1>>), [type |-> "float"], [type |-> "tuple"],
     [type |-> "dict", items |-> <<>>]}

StructuredGridArgs ==
    {<<>>}
      \cup {<<[type |-> t, mesh |-> g]>> :
               t \in {"vtkStructuredGrid", "str", "Path"}, g \in StoredGrids}
      \cup {<<v>> : v \in OtherValues \cup GridArrays(0)}
      \cup UNION {{<<GridArray(sx, 0, tx), GridArray(sy, 10, tyz),
                        GridArray(sz, 20, tyz)>> :
                      sy \in LikeShapes(sx), sz \in LikeShapes(sx)} :
                   sx \in Shapes, tx \in DTypes, tyz \in DTypes}
      \cup {<<x, y, z>> : x \in OtherValues, y \in GridArrays(10), z \in GridArrays(20)}
      \cup {<<x, y, z>> : x \in GridArrays(0), y \in GridArrays(10), z \in OtherValues}
      \cup {<<x, y>> : x \in GridArrays(0), y \in GridArrays(10)}
      \cup {<<x, x, x, x>> : x \in GridArrays(0)}

StructuredGrid__init__ ==
    /\ self.cls = "none"
    /\ call.op = "none"
    /\ \E args \in StructuredGridArgs :
        LET r == StructuredGrid_init(args)
        IN /\ self' = r.self
           /\ call' = [op |-> "StructuredGrid", args |-> args, outcome |-> r.outcome,
                       io |-> r.io]
           /\ ret' = PyNone
           /\ UNCHANGED VTK9

\* The setter of dimensions (lines 955-960): dims[0], dims[1] and dims[2],
\* with Python's IndexError for a sequence of fewer entries.
set_dimensions(grid, dims) ==
    IF Len(dims) < 3 THEN [outcome |-> "IndexError", self |-> grid]
    ELSE [outcome |-> "ok", self |-> [grid EXCEPT !.dimensions = SubSeq(dims, 1, 3)]]

\* The dimensions assigned: of one to three entries, and of four.
DimsTried == Shapes \cup {<<1, 1, 1, 1>>}

\* An assignment to dimensions of the grid constructed.
StructuredGrid_set_dimensions ==
    /\ self.cls = "StructuredGrid"
    /\ call.op = "StructuredGrid"
    /\ \E dims \in DimsTried :
          LET r == set_dimensions(self, dims)
          IN /\ self' = r.self
             /\ call' = [op |-> "dimensions", dims |-> dims, outcome |-> r.outcome]
             /\ ret' = PyNone
             /\ UNCHANGED VTK9

\* `after` is the call that came before this one.
HideCellsCall(ind) ==
    LET r == hide_cells(self, ind)
    IN /\ self' = r.self
       /\ call' = [op |-> "hide_cells", ind |-> ind, outcome |-> r.outcome,
                   before |-> self, after |-> call.op]
       /\ ret' = PyNone
       /\ UNCHANGED VTK9

\* A call of hide_cells on the grid constructed, also once its dimensions have
\* been set or it has been overwritten by shallow_copy, and a second call once
\* the first call on a grid just constructed has written the ghost array.
StructuredGrid_hide_cells ==
    /\ self.cls = "StructuredGrid"
    /\ \/ call.op \in {"StructuredGrid", "dimensions", "shallow_copy"}
       \/ /\ call.op = "hide_cells"
          /\ call.outcome = "ok"
          /\ call.after = "StructuredGrid"
    /\ \/ \E ind \in IndexArgs(StructuredGrid_n_cells(self)) : HideCellsCall(ind)
       \/ \E ind \in MaskArgs(StructuredGrid_n_cells(self)) : HideCellsCall(ind)

\* Reading one of the properties x, y and z of the grid constructed (the wrapper
\* of the points of a grid without points is outside this file).
StructuredGrid_xyz ==
    /\ self.cls = "StructuredGrid"
    /\ call.op \in {"StructuredGrid", "dimensions", "shallow_copy"}
    /\ self.points # <<>>
    /\ \E axis \in {"x", "y", "z"} :
          LET r == CASE axis = "x" -> StructuredGrid_x(self)
                     [] axis = "y" -> StructuredGrid_y(self)
                     [] axis = "z" -> StructuredGrid_z(self)
          IN /\ ret' = r.val
             /\ call' = [op |-> axis, outcome |-> r.outcome, made |-> call]
             /\ UNCHANGED <<VTK9, self>>

(***************************************************************************)
(* UnstructuredGrid                                                        *)
(***************************************************************************)
VTK_VERTEX == 1

VTK_LINE == 3

VTK_TRIANGLE == 5

VTK_POLYGON == 7

VTK_QUAD == 9

VTK_TETRA == 10

VTK_HEXAHEDRON == 12

VTK_WEDGE == 13

VTK_PYRAMID == 14

\* A cell type that is not linear and that linear_copy does not name.
VTK_QUADRATIC_EDGE == 21

VTK_QUADRATIC_TRIANGLE == 22

VTK_QUADRATIC_QUAD == 23

VTK_QUADRATIC_TETRA == 24

VTK_QUADRATIC_HEXAHEDRON == 25

VTK_QUADRATIC_WEDGE == 26

VTK_QUADRATIC_PYRAMID == 27

\* The object after vtkUnstructuredGrid's own constructor.  `locations` is the
\* cell locations array of the legacy encoding.
NewUnstructuredGrid ==
    [cls |-> "UnstructuredGrid", points |-> <<>>, celltypes |-> <<>>,
     cells |-> EmptyCellArray, locations |-> <<>>]

UnstructuredGrid_n_cells(grid) == grid.cells.n_cells

celltypes(grid) == grid.celltypes

RECURSIVE without_counts(_)
\* The connectivity of a count-prefixed array: the point indices alone.
without_counts(data) ==
    IF data = <<>> THEN <<>>
    ELSE IF Len(data) < data[1] + 1 THEN Tail(data)
    ELSE SubSeq(data, 2, data[1] + 1)
            \o without_counts(SubSeq(data, data[1] + 2, Len(data)))

\* The legacy getter `cells`: the count-prefixed connectivity array.
cells(grid) == grid.cells.data

RECURSIVE connectivity_offsets(_, _)
\* The offsets array of a VTK 9 cell array: where each cell starts in the
\* connectivity without the counts, and where the last one ends.
connectivity_offsets(data, at) ==
    IF data = <<>> THEN <<at>>
    ELSE IF Len(data) < data[1] + 1 THEN <<at, at + Len(data) - 1>>
    ELSE <<at>> \o connectivity_offsets(SubSeq(data, data[1] + 2, Len(data)),
                                         at + data[1])

\* The getter `offset`.
offset(grid) ==
    IF VTK9 THEN connectivity_offsets(grid.cells.data, 0) ELSE grid.locations

\* pyvista.utilities.cells.generate_cell_offsets: the start location of each
\* cell in the cells array.
generate_cell_offsets(cells_, cell_type) == cell_starts(flat(cells_), 0)

\* cell_type.astype(np.uint8)
as_uint8(a) == [i \in 1..Len(a) |-> a[i] % 256]

\* UnstructuredGrid._from_arrays(offset, cells, cell_type, points, deep)
UnstructuredGrid_from_arrays(grid, offset_, cells_, cell_type, points, deep) ==
    LET vtkcells == CellArray(cells_, PyInt(Len(flat(cell_type))), deep)
        types == as_uint8(flat(cell_type))
        g == [grid EXCEPT !.points = vtk_points(points, deep)]
    IN IF VTK9
       THEN [g EXCEPT !.celltypes = types, !.cells = vtkcells]
       ELSE [g EXCEPT !.celltypes = types, !.cells = vtkcells,
                      !.locations = IF offset_.type = "NoneType"
                                    THEN generate_cell_offsets(cells_, types)
                                    ELSE flat(offset_)]

\* The final else building its TypeError without raising it.
invalid_parameters_unraised(args) == Returned(NewUnstructuredGrid, "none")

\* The final else of the constructor (lines 603-609).
invalid_parameters(args) == Raised("TypeError")

\* UnstructuredGrid._check_for_consistency(): the exception raised, or "ok".
check_for_consistency(grid) ==
    IF UnstructuredGrid_n_cells(grid) # Len(celltypes(grid))
    THEN "ValueError"
    ELSE IF VTK9
    THEN IF UnstructuredGrid_n_cells(grid) # Len(offset(grid)) - 1
         THEN "ValueError" ELSE "ok"
    ELSE IF UnstructuredGrid_n_cells(grid) # Len(offset(grid))
         THEN "ValueError" ELSE "ok"

Checked(grid) ==
    IF check_for_consistency(grid) = "ok" THEN Returned(grid, "none")
    ELSE Raised(check_for_consistency(grid))

\* Number of points of the cell types of fixed size (0: variable size).
nr_points_map == (VTK_VERTEX :> 1) @@ (VTK_LINE :> 2) @@ (VTK_TRIANGLE :> 3)
                   @@ (VTK_POLYGON :> 0) @@ (VTK_QUAD :> 4)
                   @@ (VTK_TETRA :> 4) @@ (VTK_HEXAHEDRON :> 8) @@ (VTK_WEDGE :> 6)
                   @@ (VTK_PYRAMID :> 5) @@ (VTK_QUADRATIC_EDGE :> 3)
                   @@ (VTK_QUADRATIC_TRIANGLE :> 6) @@ (VTK_QUADRATIC_QUAD :> 8)
                   @@ (VTK_QUADRATIC_TETRA :> 10) @@ (VTK_QUADRATIC_HEXAHEDRON :> 20)
                   @@ (VTK_QUADRATIC_WEDGE :> 15) @@ (VTK_QUADRATIC_PYRAMID :> 13)

RECURSIVE prefixed(_, _)
\* The rows of a cell type, each behind its number of points.
prefixed(rows, n) ==
    IF rows = <<>> THEN <<>> ELSE (<<n>> \o Head(rows)) \o prefixed(Tail(rows), n)

RECURSIVE mixed_types(_)
mixed_types(items) ==
    IF items = <<>> THEN <<>>
    ELSE [i \in 1..Len(Head(items).rows) |-> Head(items).key] \o mixed_types(Tail(items))

RECURSIVE mixed_cells(_)
mixed_cells(items) ==
    IF items = <<>> THEN <<>>
    ELSE prefixed(Head(items).rows, nr_points_map[Head(items).key])
            \o mixed_cells(Tail(items))

\* pyvista.utilities.cells.create_mixed_cells(cells_dict, nr_points), whose
\* code is outside this file: the conversion of a cell dictionary to the flat
\* arrays _from_cells_dict hands on to _from_arrays (lines 625-629): the cell
\* types, the count-prefixed cells and, for the legacy encoding, the offsets,
\* key by key in the order of the dictionary.  It is modelled for dictionaries
\* of fixed-size cell types whose arrays each hold at least one row of the
\* width of the type with point indices in range; what it does with any other
\* dictionary cannot be read from this file and is left out.
create_mixed_cells(cells_dict, nr_points) ==
    LET items == cells_dict.items
    IN [cell_types |-> NdArray(mixed_types(items)),
        cells |-> NdArray(mixed_cells(items)),
        offset |-> NdArray(cell_starts(mixed_cells(items), 0))]

\* UnstructuredGrid._from_cells_dict(cells_dict, points, deep)
UnstructuredGrid_from_cells_dict(grid, cells_dict, points, deep) ==
    IF points.ndim # 2 \/ points.shape[Len(points.shape)] # 3
    THEN Raised("ValueError")
    ELSE LET m == create_mixed_cells(cells_dict, points.shape[1])
         IN IF VTK9
            THEN Returned(UnstructuredGrid_from_arrays(
                              grid, PyNone, m.cells, m.cell_types, points, deep), "none")
            ELSE Returned(UnstructuredGrid_from_arrays(
                              grid, m.offset, m.cells, m.cell_types, points, deep), "none")

\* The native vtkAppendFilter on a structured grid of points along a line.
append_filter(sgrid) ==
    LET n == Len(sgrid.points)
        data == IF n = 1 THEN <<1, 0>>
                ELSE ravel([i \in 1..(n - 1) |-> <<2, i - 1, i>>])
    IN [NewUnstructuredGrid EXCEPT
          !.points = sgrid.points,
          !.celltypes = [i \in 1..StructuredGrid_n_cells(sgrid) |->
                            IF n = 1 THEN VTK_VERTEX ELSE VTK_LINE],
          !.cells = [data |-> IF n = 0 THEN <<>> ELSE data,
                     n_cells |-> StructuredGrid_n_cells(sgrid)],
          !.locations = cell_starts(IF n = 0 THEN <<>> ELSE data, 0)]

\* UnstructuredGrid.__init__(*args, deep=False)
UnstructuredGrid_init(args, deep) ==
    IF Len(args) = 0 THEN Returned(NewUnstructuredGrid, "none")
    ELSE IF Len(args) = 1
    THEN IF args[1].type = "vtkUnstructuredGrid"
         THEN Returned(copy_of(args[1]), IF deep THEN "deep_copy" ELSE "shallow_copy")
         ELSE IF args[1].type \in {"str", "Path"}
         THEN Returned(from_file(args[1]), "from_file")
         ELSE IF args[1].type = "vtkStructuredGrid"
         THEN Returned(append_filter(args[1].mesh), "shallow_copy")
         ELSE Raised("TypeError")
    ELSE IF Len(args) = 2 /\ args[1].type = "dict" /\ args[2].type = "ndarray"
    THEN LET r == UnstructuredGrid_from_cells_dict(
                      NewUnstructuredGrid, args[1], args[2], deep)
         IN IF r.outcome # "ok" THEN r ELSE Checked(r.self)
    ELSE IF Len(args) = 3
    THEN IF args[1].type = "ndarray" /\ args[2].type = "ndarray"
            /\ args[3].type = "ndarray"
         THEN Checked(UnstructuredGrid_from_arrays(
                          NewUnstructuredGrid, PyNone, args[1], args[2], args[3], deep))
         ELSE Raised("TypeError")
    ELSE IF Len(args) = 4
    THEN IF args[1].type = "ndarray" /\ args[2].type = "ndarray"
            /\ args[3].type = "ndarray" /\ args[4].type = "ndarray"
         THEN Checked(UnstructuredGrid_from_arrays(
                          NewUnstructuredGrid, args[1], args[2], args[3], args[4], deep))
         ELSE Raised("TypeError")
    ELSE invalid_parameters(args)

\* The grids cells_dict is documented for (lines 735-746): grids with cells,
\* every cell of a type of fixed size and stored with the number of points of
\* its type.
fixed_sizes(grid) ==
    LET n == UnstructuredGrid_n_cells(grid)
        types == celltypes(grid)
        data == cells(grid)
        st == cell_starts(data, 0)
    IN /\ n > 0
       /\ Len(types) = n
       /\ Len(st) = n
       /\ \A i \in 1..n :
             /\ types[i] \in DOMAIN nr_points_map
             /\ nr_points_map[types[i]] > 0
             /\ data[st[i] + 1] = nr_points_map[types[i]]
       /\ st[n] + 1 + nr_points_map[types[n]] = Len(data)

\* pyvista.utilities.cells.get_mixed_cells(grid), the value of cells_dict,
\* whose code is outside this file.  By the docstring of cells_dict (lines
\* 735-746) it maps each cell type of the grid to an array of all cells of
\* that type, in the order of the grid; it is modelled for the grids of
\* fixed_sizes only.
get_mixed_cells(grid) ==
    LET n == UnstructuredGrid_n_cells(grid)
        types == celltypes(grid)
        data == cells(grid)
        st == cell_starts(data, 0)
        row(i) == [c \in 1..nr_points_map[types[i]] |-> data[st[i] + 1 + c]]
        unique == {types[i] : i \in 1..n}
        of(t) == keep_where([i \in 1..n |-> row(i)], [i \in 1..n |-> types[i] = t])
    IN [type |-> "dict", map |-> [t \in unique |-> of(t)]]

\* celltype[celltype == old] = new
replaced(celltype, old, new) ==
    [i \in 1..Len(celltype) |-> IF celltype[i] = old THEN new ELSE celltype[i]]

\* celltype == t
mask_of(celltype, t) == [i \in 1..Len(celltype) |-> celltype[i] = t]

RECURSIVE with_counts(_, _)
\* The count-prefixed array of a connectivity array and its offsets array.
with_counts(conn, offsets) ==
    IF Len(offsets) < 2 THEN <<>>
    ELSE LET n == offsets[2] - offsets[1]
         IN (<<n>> \o SubSeq(conn, offsets[1] + 1, offsets[2]))
               \o with_counts(conn, Tail(offsets))

\* One statement `arr[offs + d] = base_point`: entry m of base_point goes to
\* position offs[m] + d, the last entry winning where two positions coincide.
assigned(arr, offs, d, base_point) ==
    LET hit(p) == {m \in 1..Len(offs) : offs[m] + d + 1 = p}
    IN [p \in 1..Len(arr) |->
          IF hit(p) = {} THEN arr[p]
          ELSE base_point[CHOOSE m \in hit(p) : \A o \in hit(p) : o <= m]]

RECURSIVE assigned_in_turn(_, _, _, _, _)
\* The statements arr[offs + lo] = base_point, ..., arr[offs + hi] = base_point
\* one after the other: a later statement overwrites an earlier one.
assigned_in_turn(arr, offs, lo, hi, base_point) ==
    IF lo > hi THEN arr
    ELSE assigned_in_turn(assigned(arr, offs, lo, base_point), offs, lo + 1, hi,
                          base_point)

\* base_point = arr[offs + first]; then arr[offs + lo] = base_point, ...,
\* arr[offs + lo + count - 1] = base_point, with numpy's IndexError for a
\* position past the end of arr.
fixed_cells(arr, offs, first, lo, count) ==
    IF \E m \in 1..Len(offs) : offs[m] + lo + count - 1 >= Len(arr)
    THEN [outcome |-> "IndexError", arr |-> arr]
    ELSE [outcome |-> "ok",
          arr |-> assigned_in_turn(arr, offs, lo, lo + count - 1,
                                   [m \in 1..Len(offs) |-> arr[offs[m] + first + 1]])]

\* Lines 803-832: the points of the mid-side nodes of the former quadratic
\* quads and triangles are set to the first point of their cell, in the
\* connectivity array (VTK 9) or in the legacy cells array.
fixed_display(data, locations, quad_quad_mask, quad_tri_mask) ==
    LET offsets == connectivity_offsets(data, 0)
        arr == IF VTK9 THEN without_counts(data) ELSE data
        offs(mask) == IF VTK9
                      THEN keep_where(SubSeq(offsets, 1, Len(offsets) - 1), mask)
                      ELSE keep_where(locations, mask)
        first == IF VTK9 THEN 0 ELSE 1
        quads == IF \E i \in 1..Len(quad_quad_mask) : quad_quad_mask[i]
                 THEN fixed_cells(arr, offs(quad_quad_mask), first, first + 4, 4)
                 ELSE [outcome |-> "ok", arr |-> arr]
        tris == IF quads.outcome = "ok" /\ \E i \in 1..Len(quad_tri_mask) : quad_tri_mask[i]
                THEN fixed_cells(quads.arr, offs(quad_tri_mask), first, first + 3, 3)
                ELSE quads
    IN [outcome |-> tris.outcome,
        data |-> IF VTK9 THEN with_counts(tris.arr, offsets) ELSE tris.arr]

\* Lines 784-796: the cell types with the quadratic types replaced, and the
\* masks of the former quadratic quads and triangles.
linear_types(celltype) ==
    LET t1 == replaced(celltype, VTK_QUADRATIC_TETRA, VTK_TETRA)
        t2 == replaced(t1, VTK_QUADRATIC_PYRAMID, VTK_PYRAMID)
        t3 == replaced(t2, VTK_QUADRATIC_WEDGE, VTK_WEDGE)
        t4 == replaced(t3, VTK_QUADRATIC_HEXAHEDRON, VTK_HEXAHEDRON)
        quad_quad_mask == mask_of(t4, VTK_QUADRATIC_QUAD)
        t5 == replaced(t4, VTK_QUADRATIC_QUAD, VTK_QUAD)
        quad_tri_mask == mask_of(t5, VTK_QUADRATIC_TRIANGLE)
        t6 == replaced(t5, VTK_QUADRATIC_TRIANGLE, VTK_TRIANGLE)
    IN [celltype |-> t6, quad_quad_mask |-> quad_quad_mask,
        quad_tri_mask |-> quad_tri_mask]

\* The grid a write through the copy leaves behind: an array the copy shares
\* with the grid shows the write, an array of its own does not.
seen_by(grid, shared, lgrid) ==
    IF shared THEN [grid EXCEPT !.celltypes = lgrid.celltypes, !.cells = lgrid.cells]
    ELSE grid

\* linear_copy keeping the arrays of self.copy(deep) instead of setting copies
\* of the cell types and the cells: a shallow copy shares them with the grid.
linear_copy_sharing(grid, deep) ==
    LET lgrid0 == copy(grid)
        lin == linear_types(celltypes(grid))
        shared == ~deep
        lgrid1 == [lgrid0 EXCEPT !.celltypes = lin.celltype]
        fix == fixed_display(lgrid1.cells.data, lgrid1.locations,
                             lin.quad_quad_mask, lin.quad_tri_mask)
        lgrid == [lgrid1 EXCEPT !.cells.data = fix.data]
    IN IF fix.outcome # "ok"
       THEN [outcome |-> fix.outcome, self |-> seen_by(grid, shared, lgrid1),
             ret |-> PyNone]
       ELSE [outcome |-> "ok", self |-> seen_by(grid, shared, lgrid), ret |-> lgrid]

\* UnstructuredGrid.linear_copy(deep): the cell types are copied by
\* numpy_to_vtk(..., deep=True) and the cells by DeepCopy, so that the copy
\* shares neither with the grid.
linear_copy(grid, deep) ==
    LET lgrid0 == copy(grid)
        lin == linear_types(celltypes(grid))
        shared == FALSE
        lgrid1 == [lgrid0 EXCEPT !.celltypes = lin.celltype,
                                 !.locations = grid.locations,
                                 !.cells = grid.cells]
        fix == fixed_display(lgrid1.cells.data, lgrid1.locations,
                             lin.quad_quad_mask, lin.quad_tri_mask)
        lgrid == [lgrid1 EXCEPT !.cells.data = fix.data]
    IN IF fix.outcome # "ok"
       THEN [outcome |-> fix.outcome, self |-> seen_by(grid, shared, lgrid1),
             ret |-> PyNone]
       ELSE [outcome |-> "ok", self |-> seen_by(grid, shared, lgrid), ret |-> lgrid]

\* ---- arguments tried ----
PointsArray(rows, ncols) ==
    [type |-> "ndarray", ndim |-> 2, dtype |-> "float", shape |-> <<Len(rows), ncols>>,
     val |-> rows]

GridPoints == {PointsArray(Pts(n), 3) : n \in {0, MaxPoints + 1}}

BadPoints ==
    {PointsArray([i \in 1..2 |-> <<i, 0>>], 2),
     [type |-> "ndarray", ndim |-> 1, dtype |-> "float", shape |-> <<3>>,
      val |-> <<0, 0, 0>>]}

CellTemplates == {<<3, 0, 1, 2>>, <<4, 0, 1, 2, 3>>}

\* Count-prefixed arrays of at most MaxCells cells.
CellsData == {ravel(cs) : cs \in SeqsUpTo(CellTemplates, MaxCells)}

CellTypeData == SeqsUpTo({VTK_TRIANGLE, VTK_QUAD}, MaxCells)

\* Offset arrays tried with a cells array: its cell starts, one entry fewer,
\* one entry more.
OffsetData(data) ==
    LET st == cell_starts(data, 0)
    IN {st, st \o <<Len(data)>>} \cup (IF st = <<>> THEN {} ELSE {Tail(st)})

\* Arrays of one to MaxCells rows of a cell type of fixed size.
RowData(key) ==
    IF key = VTK_TRIANGLE
    THEN SeqsUpTo({<<0, 1, 2>>, <<1, 2, 3>>}, MaxCells) \ {<<>>}
    ELSE SeqsUpTo({<<0, 1, 2, 3>>, <<3, 2, 1, 0>>}, MaxCells) \ {<<>>}

\* A Python dict: its items in insertion order, the keys distinct.
PyDict(items) == [type |-> "dict", items |-> items]

CellDicts ==
    {PyDict(<<[key |-> k, rows |-> r]>>) : k \in {VTK_TRIANGLE}, r \in RowData(VTK_TRIANGLE)}
      \cup {PyDict(<<[key |-> k, rows |-> r]>>) : k \in {VTK_QUAD}, r \in RowData(VTK_QUAD)}
      \cup {PyDict(<<[key |-> VTK_TRIANGLE, rows |-> r1], [key |-> VTK_QUAD, rows |-> r2]>>) :
               r1 \in RowData(VTK_TRIANGLE), r2 \in RowData(VTK_QUAD)}
      \cup {PyDict(<<[key |-> VTK_QUAD, rows |-> r2], [key |-> VTK_TRIANGLE, rows |-> r1]>>) :
               r1 \in RowData(VTK_TRIANGLE), r2 \in RowData(VTK_QUAD)}

TriGrid ==
    [NewUnstructuredGrid EXCEPT
        !.points = Pts(3), !.celltypes = <<VTK_TRIANGLE>>,
        !.cells = [data |-> <<3, 0, 1, 2>>, n_cells |-> 1], !.locations = <<0>>]

\* The cell types of the stored grids tried with linear_copy: the six quadratic
\* types it converts, one it does not, and a linear one.
LinearCopyTypes ==
    {VTK_QUADRATIC_TETRA, VTK_QUADRATIC_PYRAMID, VTK_QUADRATIC_WEDGE,
     VTK_QUADRATIC_HEXAHEDRON, VTK_QUADRATIC_QUAD, VTK_QUADRATIC_TRIANGLE,
     VTK_QUADRATIC_EDGE, VTK_TRIANGLE}

\* A stored grid of cells of the given types: cell c (0-based) has the points
\* c, c + 1, ... in this order.
GridOfTypes(types) ==
    LET data == ravel([c \in 1..Len(types) |->
                         <<nr_points_map[types[c]]>>
                            \o [q \in 1..nr_points_map[types[c]] |-> c + q - 2]])
    IN [NewUnstructuredGrid EXCEPT
          !.points = Pts(Len(types) + 19), !.celltypes = types,
          !.cells = [data |-> data, n_cells |-> Len(types)],
          !.locations = cell_starts(data, 0)]

StoredUnstructuredGrids ==
    {NewUnstructuredGrid, TriGrid}
      \cup {GridOfTypes(types) : types \in SeqsUpTo(LinearCopyTypes, MaxCells) \ {<<>>}}

ArrayArgs3 ==
    {<<NdArray(c), NdArray(t), p>> : c \in CellsData, t \in CellTypeData, p \in GridPoints}

ArrayArgs4 ==
    UNION {{<<NdArray(o), NdArray(c), NdArray(t), p>> :
               o \in OffsetData(c), t \in CellTypeData, p \in GridPoints} : c \in CellsData}

UnstructuredGridArgs ==
    {<<>>}
      \cup {<<[type |-> t, mesh |-> g]>> :
               t \in {"vtkUnstructuredGrid", "str", "Path"}, g \in StoredUnstructuredGrids}
      \cup {<<[type |-> "vtkStructuredGrid", mesh |-> g]>> : g \in StoredGrids}
      \cup {<<v>> : v \in OtherValues \cup GridPoints}
      \cup {<<d, p>> : d \in CellDicts,
                        p \in {PointsArray(Pts(MaxPoints + 1), 3)} \cup BadPoints}
      \cup {<<d, p>> : d \in {PyDict(<<>>)}, p \in OtherValues}
      \cup {<<c, p>> : c \in {NdArray(<<3, 0, 1, 2>>), PyList(<<3, 0, 1, 2>>)}, p \in GridPoints}
      \cup ArrayArgs3
      \cup {<<PyList(<<3, 0, 1, 2>>), NdArray(<<VTK_TRIANGLE>>), p>> : p \in GridPoints}
      \cup {<<NdArray(<<3, 0, 1, 2>>), NdArray(<<VTK_TRIANGLE>>), v>> : v \in OtherValues}
      \cup ArrayArgs4
      \cup {<<v, NdArray(<<3, 0, 1, 2>>), NdArray(<<VTK_TRIANGLE>>), p>> :
               v \in OtherValues, p \in GridPoints}
      \cup {<<NdArray(<<0>>), NdArray(<<3, 0, 1, 2>>), NdArray(<<VTK_TRIANGLE>>), p, v>> :
               p \in GridPoints, v \in OtherValues \cup GridPoints}

UnstructuredGrid__init__ ==
    /\ self.cls = "none"
    /\ call.op = "none"
    /\ \E args \in UnstructuredGridArgs, deep \in BOOLEAN :
        LET r == UnstructuredGrid_init(args, deep)
        IN /\ self' = r.self
           /\ call' = [op |-> "UnstructuredGrid", args |-> args, deep |-> deep,
                       outcome |-> r.outcome, io |-> r.io]
           /\ ret' = PyNone
           /\ UNCHANGED VTK9

\* Reading the property cells_dict of the grid just constructed, where the
\* docstring says what it returns.
UnstructuredGrid_cells_dict ==
    /\ self.cls = "UnstructuredGrid"
    /\ call.op \in {"UnstructuredGrid", "shallow_copy"}
    /\ fixed_sizes(self)
    /\ call' = [op |-> "cells_dict", outcome |-> "ok", made |-> call]
    /\ ret' = get_mixed_cells(self)
    /\ UNCHANGED <<VTK9, self>>

\* A call of linear_copy on the grid constructed (the native accessors of a
\* grid without cells are outside this file).
UnstructuredGrid_linear_copy ==
    /\ self.cls = "UnstructuredGrid"
    /\ call.op \in {"UnstructuredGrid", "shallow_copy"}
    /\ UnstructuredGrid_n_cells(self) > 0
    /\ \E deep \in BOOLEAN :
          LET r == linear_copy(self, deep)
          IN /\ self' = r.self
             /\ ret' = r.ret
             /\ call' = [op |-> "linear_copy", deep |-> deep, outcome |-> r.outcome,
                         before |-> self]
             /\ UNCHANGED VTK9

\* PointSet.shallow_copy(to_copy) (lines 52-57): the mesh takes the content of
\* to_copy.
shallow_copy(mesh, to_copy) == copy_of([mesh |-> to_copy])

ShallowCopyCall(to_copy) ==
    /\ self' = shallow_copy(self, to_copy)
    /\ call' = [op |-> "shallow_copy", to_copy |-> to_copy, outcome |-> "ok"]
    /\ ret' = PyNone
    /\ UNCHANGED VTK9

\* A call of shallow_copy on the mesh constructed, with a mesh of its class.
PointSet_shallow_copy ==
    \/ /\ self.cls = "PolyData"
       /\ call.op = "PolyData"
       /\ \E to_copy \in StoredPolyData : ShallowCopyCall(to_copy)
    \/ /\ self.cls = "StructuredGrid"
       /\ call.op = "StructuredGrid"
       /\ \E to_copy \in StoredGrids : ShallowCopyCall(to_copy)
    \/ /\ self.cls = "UnstructuredGrid"
       /\ call.op = "UnstructuredGrid"
       /\ \E to_copy \in {NewUnstructuredGrid, TriGrid} : ShallowCopyCall(to_copy)

Init ==
    /\ VTK9 \in BOOLEAN
    /\ self \in {NoObject} \cup PointSetMeshes
    /\ call = NoCall
    /\ ret = PyNone

Next ==
    \/ PolyData__init__
    \/ PolyData_set_cells
    \/ PolyData_is_all_triangles
    \/ PointSet_shallow_copy
    \/ PointSet_remove_cells
    \/ StructuredGrid__init__
    \/ StructuredGrid_set_dimensions
    \/ StructuredGrid_hide_cells
    \/ StructuredGrid_xyz
    \/ UnstructuredGrid__init__
    \/ UnstructuredGrid_cells_dict
    \/ UnstructuredGrid_linear_copy

Spec == Init /\ [][Next]_vars

(***************************************************************************)
(* The claims.                                                             *)
(***************************************************************************)
InputIsPoints == call.var_inp.type \in {"ndarray", "list"}

InputIsFileOrMesh == call.var_inp.type \in {"str", "Path", "PolyData", "vtkPolyData"}

\* C1 (as stated): constructing a PolyData whose first argument is of an
\* unsupported type raises TypeError and produces no mesh.
C1_UnsupportedInputRaisesTypeError ==
    (call.op = "PolyData" /\ call.var_inp.type # "NoneType"
        /\ ~InputIsPoints /\ ~InputIsFileOrMesh)
      => (call.outcome = "TypeError" /\ self.cls = "none")

\* The number of cells of the mesh or grid a masking call acted on.
CellCount(obj) ==
    IF obj.cls = "StructuredGrid" THEN StructuredGrid_n_cells(obj) ELSE Len(obj.cells)

MaskOfWrongSize ==
    /\ call.op \in {"remove_cells", "hide_cells"}
    /\ call.ind.type = "ndarray"
    /\ call.ind.dtype = "bool"
    /\ Len(call.ind.val) # CellCount(call.before)

\* C2: remove_cells and hide_cells called with a boolean numpy array whose
\* size differs from the number of cells raise ValueError and leave the mesh
\* as it was (same cells, same cell arrays), returning nothing.
C2_WrongMaskSizeRaisesValueError ==
    MaskOfWrongSize => (call.outcome = "ValueError" /\ self = call.before /\ ret = PyNone)

C2_Witness ==
    /\ MaskOfWrongSize
    /\ call.op = "remove_cells"
    /\ ~call.inplace
    /\ GhostArrayName \in DOMAIN call.before.cell_arrays
    /\ call.outcome = "ValueError"

AllArrays(args) == \A i \in 1..Len(args) : args[i].type = "ndarray"

FromArrays == call.op = "UnstructuredGrid" /\ Len(call.args) \in {3, 4} /\ AllArrays(call.args)

FromDict ==
    /\ call.op = "UnstructuredGrid"
    /\ Len(call.args) = 2
    /\ call.args[1].type = "dict"
    /\ call.args[2].type = "ndarray"

\* The number of cells the cells array of a call from arrays encodes.
EncodedCells == count_cells(call.args[Len(call.args) - 2].val)

\* The offset array of a call is looked at in the legacy encoding only (lines
\* 694-702): its length differs from the number of cells encoded.
OffsetLengthDiffers ==
    /\ ~VTK9
    /\ Len(call.args) = 4
    /\ EncodedCells # Len(call.args[1].val)

\* C3 (as stated): a grid constructed without error from arrays or from a
\* cells dictionary has as many cell types as cells and an offset array of
\* n_cells + 1 entries (n_cells in the legacy encoding); arrays that encode
\* another number of cells than there are cell types, or than the offset array
\* has entries, make the constructor raise ValueError and return no grid.
C3_CellTypesAndOffsetMatchCells ==
    /\ ((FromArrays \/ FromDict) /\ call.outcome = "ok")
          => /\ Len(celltypes(self)) = UnstructuredGrid_n_cells(self)
             /\ Len(offset(self)) =
                   UnstructuredGrid_n_cells(self) + (IF VTK9 THEN 1 ELSE 0)
    /\ (/\ FromArrays
        /\ \/ EncodedCells # Len(call.args[Len(call.args) - 1].val)
           \/ OffsetLengthDiffers)
          => (call.outcome = "ValueError" /\ self.cls = "none")

UnsupportedForm(args) ==
    \/ Len(args) = 1
         /\ args[1].type \notin {"vtkUnstructuredGrid", "str", "Path", "vtkStructuredGrid"}
    \/ Len(args) \in {3, 4} /\ ~AllArrays(args)
    \/ Len(args) = 2 /\ ~(args[1].type = "dict" /\ args[2].type = "ndarray")
    \/ Len(args) >= 5

\* C4: the UnstructuredGrid constructor raises TypeError for every form of
\* positional arguments it does not support, and returns an empty grid for no
\* arguments.
C4_UnsupportedFormRaisesTypeError ==
    call.op = "UnstructuredGrid"
      => /\ UnsupportedForm(call.args) => (call.outcome = "TypeError" /\ self.cls = "none")
         /\ Len(call.args) = 0 => (call.outcome = "ok" /\ self = NewUnstructuredGrid)

C4_Witness ==
    /\ call.op = "UnstructuredGrid"
    /\ Len(call.args) = 2
    /\ call.args[1].type = "dict"
    /\ call.args[2].type # "ndarray"
    /\ call.outcome = "TypeError"

\* C5 (as stated): a StructuredGrid constructed from one argument that is
\* neither a vtkStructuredGrid nor a str, or from three arguments that are not
\* all numpy arrays, raises TypeError and never returns an empty grid.
C5_TypeMismatchRaisesTypeError ==
    (/\ call.op = "StructuredGrid"
     /\ \/ Len(call.args) = 1 /\ call.args[1].type \notin {"vtkStructuredGrid", "str"}
        \/ Len(call.args) = 3 /\ ~AllArrays(call.args))
      => (call.outcome = "TypeError" /\ self.cls = "none")

\* The padded array [1, 0, 1, 1, ..., 1, n-1]: n vertex cells, cell i on point i.
VertexCells(n) == [k \in 1..(2 * n) |-> IF k % 2 = 1 THEN 1 ELSE (k \div 2) - 1]

PointsWithoutFaces ==
    /\ call.op = "PolyData"
    /\ InputIsPoints
    /\ call.outcome = "ok"
    /\ call.faces.type = "NoneType"

\* C7 (as stated): a PolyData constructed from N points without faces has the
\* verts [1, 0, 1, 1, ..., 1, N-1], whether or not lines are passed.
C7_VertexCellsWithoutFaces ==
    PointsWithoutFaces => verts(self) = VertexCells(Len(call.var_inp.val))

\* C7 (amended): a PolyData constructed from N points without faces and
\* without lines has the verts [1, 0, 1, 1, ..., 1, N-1]; when lines are passed
\* without faces it has no vertex cells.
C7_VertexCellsForPointCloud ==
    PointsWithoutFaces
      => IF call.lines.type = "NoneType"
         THEN verts(self) = VertexCells(Len(call.var_inp.val))
         ELSE verts(self) = <<>>

C7_Witness ==
    /\ PointsWithoutFaces
    /\ call.lines.type = "NoneType"
    /\ Len(call.var_inp.val) = 3
    /\ verts(self) = <<1, 0, 1, 1, 1, 2>>

\* C8 (as stated): when the first argument is a filename or a PolyData and any
\* of faces, n_faces, lines, n_lines is set, the constructor raises ValueError
\* before reading the file or copying the mesh.
C8_OtherArgumentsRaiseValueError ==
    (/\ call.op = "PolyData"
     /\ InputIsFileOrMesh
     /\ \/ call.faces.type # "NoneType"
        \/ call.n_faces.type # "NoneType"
        \/ call.lines.type # "NoneType"
        \/ call.n_lines.type # "NoneType")
      => (call.outcome = "ValueError" /\ call.io = "none")

\* The positions (1-based) of the cells an index selects in a mesh of n cells.
Chosen(ind, n) ==
    IF ind.dtype = "bool" THEN {i \in 1..n : ind.val[i]}
    ELSE {(ind.val[k] % n) + 1 : k \in 1..Len(ind.val)}

\* The cells outside the set S of positions, in their order.
Remaining(cells_, S) ==
    [k \in 1..(Len(cells_) - Cardinality(S)) |->
        cells_[CHOOSE i \in (1..Len(cells_)) \ S : Cardinality((1..i) \ S) = k]]

Removed == call.op = "remove_cells" /\ call.outcome = "ok"

\* C9: remove_cells(ind, inplace=True) updates the mesh and returns None;
\* remove_cells(ind, inplace=False) returns a new mesh without the cells and
\* leaves the mesh as it was, cell arrays included.
C9_InplaceOrCopy ==
    Removed
      => LET left == Remaining(call.before.cells,
                               Chosen(call.ind, Len(call.before.cells)))
         IN IF call.inplace
            THEN ret = PyNone /\ self.cells = left
            ELSE /\ ret.cls = "PointSet"
                 /\ ret.cells = left
                 /\ self = call.before

C9_Witness ==
    /\ Removed
    /\ ~call.inplace
    /\ Len(call.before.cells) = 3
    /\ Len(ret.cells) = 1
    /\ Len(self.cells) = 3
    /\ DOMAIN self.cell_arrays = {}

\* The mesh a call of remove_cells leaves the remaining cells in.
Result == IF call.inplace THEN self ELSE ret

\* C10: remove_cells removes exactly the selected cells: the number of cells
\* drops by the number of distinct selected indices, no selected cell remains,
\* the others keep their order; so the number of cells never increases.
C10_RemovesExactlySelected ==
    Removed
      => LET old == call.before.cells
             S == Chosen(call.ind, Len(old))
         IN /\ Len(Result.cells) = Len(old) - Cardinality(S)
            /\ \A i \in S : \A k \in 1..Len(Result.cells) : Result.cells[k] # old[i]
            /\ Result.cells = Remaining(old, S)
            /\ Len(Result.cells) <= Len(old)
            /\ Len(self.cells) <= Len(old)

C10_Witness ==
    /\ Removed
    /\ call.inplace
    /\ call.ind.dtype = "int"
    /\ Len(call.ind.val) = 2
    /\ call.ind.val[1] = call.ind.val[2]
    /\ Len(call.before.cells) = 2
    /\ call.before.cells # <<1, 2>>
    /\ Len(self.cells) = 1

Hidden == call.op = "hide_cells" /\ call.outcome = "ok"

\* C11: hide_cells(ind) with a valid ind hides cells without deleting them: the
\* grid keeps its dimensions, points and number of cells, and the ghost array
\* has n_cells entries, HIDDENCELL at exactly the selected indices and 0 at
\* every other index.
C11_HidesExactlySelected ==
    Hidden
      => LET n == StructuredGrid_n_cells(call.before)
             S == Chosen(call.ind, n)
         IN /\ self.dimensions = call.before.dimensions
            /\ self.points = call.before.points
            /\ StructuredGrid_n_cells(self) = n
            /\ GhostArrayName \in DOMAIN self.cell_arrays
            /\ self.cell_arrays[GhostArrayName]
                  = [i \in 1..n |-> IF i \in S THEN HIDDENCELL ELSE 0]

C11_Witness ==
    /\ Hidden
    /\ StructuredGrid_n_cells(call.before) = 3
    /\ GhostArrayName \in DOMAIN call.before.cell_arrays
    /\ call.before.cell_arrays[GhostArrayName] = <<HIDDENCELL, 0, 0>>
    /\ call.ind.dtype = "int"
    /\ call.ind.val = <<-1>>
    /\ self.cell_arrays[GhostArrayName] = <<0, 0, HIDDENCELL>>

\* A call StructuredGrid(x, y, z) with three arrays of one shape.
FromEqualShapes(c) ==
    /\ c.op = "StructuredGrid"
    /\ Len(c.args) = 3
    /\ \A a \in 1..3 : c.args[a].type = "ndarray"
    /\ c.args[1].shape = c.args[2].shape
    /\ c.args[2].shape = c.args[3].shape

\* Element [i, j, k] (0-based) of an array whose padded shape is d.
At(a, d, i, j, k) == a.val[(i * d[2] + j) * d[3] + k + 1]

\* The grid has the padded shape as dimensions and the points in column-major
\* order.
ColumnMajor(c, grid) ==
    LET d == pad3(c.args[1].shape)
    IN /\ grid.dimensions = d
       /\ Len(grid.points) = d[1] * d[2] * d[3]
       /\ \A i \in 0..(d[1] - 1), j \in 0..(d[2] - 1), k \in 0..(d[3] - 1) :
             grid.points[i + d[1] * j + d[1] * d[2] * k + 1]
               = <<At(c.args[1], d, i, j, k), At(c.args[2], d, i, j, k),
                   At(c.args[3], d, i, j, k)>>

\* The accessor read returns the elements of the array passed for its axis.
ReadsBackInput ==
    LET inp == call.made.args[CASE call.op = "x" -> 1 [] call.op = "y" -> 2
                                [] call.op = "z" -> 3]
    IN call.outcome = "ok" /\ ret.shape = pad3(inp.shape) /\ ret.val = inp.val

\* C12 (as stated): a StructuredGrid built from three equally-shaped arrays has
\* the padded shape as dimensions, nx*ny*nz points in column-major order with
\* the coordinates (x[i,j,k], y[i,j,k], z[i,j,k]), and its x, y and z accessors
\* return the elements of the input arrays.
C12_ColumnMajorRoundTrip ==
    /\ FromEqualShapes(call) => (call.outcome = "ok" /\ ColumnMajor(call, self))
    /\ (call.op \in {"x", "y", "z"} /\ FromEqualShapes(call.made)) => ReadsBackInput

Copied == call.op = "linear_copy" /\ call.outcome = "ok"

\* The linear cell type of each quadratic type linear_copy converts.
LinearOf ==
    (VTK_QUADRATIC_TETRA :> VTK_TETRA) @@ (VTK_QUADRATIC_PYRAMID :> VTK_PYRAMID)
      @@ (VTK_QUADRATIC_WEDGE :> VTK_WEDGE)
      @@ (VTK_QUADRATIC_HEXAHEDRON :> VTK_HEXAHEDRON)
      @@ (VTK_QUADRATIC_QUAD :> VTK_QUAD) @@ (VTK_QUADRATIC_TRIANGLE :> VTK_TRIANGLE)

\* The cell types tried that are not linear.
NonLinear == (DOMAIN LinearOf) \cup {VTK_QUADRATIC_EDGE}

\* C13 (as stated): linear_copy returns an UnstructuredGrid of linear cells
\* only: for every source grid no cell of the copy has a quadratic type, each
\* cell of one of the six quadratic types has the linear type that corresponds
\* to it, and the number and the order of the cells are those of the source.
C13_OnlyLinearCells ==
    Copied
      => LET old == call.before.celltypes
             new == ret.celltypes
         IN /\ ret.cls = "UnstructuredGrid"
            /\ Len(new) = Len(old)
            /\ UnstructuredGrid_n_cells(ret) = UnstructuredGrid_n_cells(call.before)
            /\ \A i \in 1..Len(new) : new[i] \notin NonLinear
            /\ \A i \in 1..Len(old) :
                  old[i] \in DOMAIN LinearOf => new[i] = LinearOf[old[i]]

\* C14: linear_copy, with deep=True and with deep=False, leaves the cell types
\* and the connectivity of the source grid as they were, also when the cell
\* types of the copy are rewritten and its connectivity is patched for
\* quadratic quads and triangles.
C14_SourceCellsUnchanged ==
    call.op = "linear_copy"
      => /\ self.celltypes = call.before.celltypes
         /\ self.cells = call.before.cells
         /\ self.locations = call.before.locations

C14_Witness ==
    /\ Copied
    /\ ~call.deep
    /\ call.before.celltypes = <<VTK_QUADRATIC_QUAD, VTK_QUADRATIC_TRIANGLE>>
    /\ ret.celltypes = <<VTK_QUAD, VTK_TRIANGLE>>
    /\ ret.cells.data # call.before.cells.data
    /\ self.celltypes = <<VTK_QUADRATIC_QUAD, VTK_QUADRATIC_TRIANGLE>>
    /\ self.cells.data = <<8, 0, 1, 2, 3, 4, 5, 6, 7, 6, 1, 2, 3, 4, 5, 6>>
    /\ ret.cells.data = <<8, 0, 1, 2, 3, 0, 0, 0, 0, 6, 1, 2, 3, 1, 1, 1>>

RECURSIVE WellFormed(_)
\* A count-prefixed array: each count is followed by that many point indices.
WellFormed(data) ==
    \/ data = <<>>
    \/ /\ data[1] >= 0
       /\ Len(data) >= data[1] + 1
       /\ WellFormed(SubSeq(data, data[1] + 2, Len(data)))

RECURSIVE EveryFaceHas(_, _)
\* Sequential parse of a count-prefixed array: every cell has n points.
EveryFaceHas(data, n) ==
    \/ data = <<>>
    \/ /\ data[1] = n
       /\ EveryFaceHas(SubSeq(data, data[1] + 2, Len(data)), n)

\* C15: is_all_triangles returns True if and only if the mesh has at least one
\* face cell, no line cells and no vertex cells, and every face of the
\* count-prefixed faces array has exactly 3 points: the stride-4 check agrees
\* with the sequential parse of every well-formed faces array.
C15_AllTrianglesIffParsedSo ==
    (call.op = "is_all_triangles" /\ WellFormed(self.faces.data))
      => ret.val = (/\ count_cells(self.faces.data) >= 1
                    /\ count_cells(self.lines.data) = 0
                    /\ count_cells(self.verts.data) = 0
                    /\ EveryFaceHas(self.faces.data, 3))

C15_Witness ==
    /\ call.op = "is_all_triangles"
    /\ self.faces.data = <<3, 0, 1, 2, 7, 3, 3, 3, 3, 3, 3, 3>>
    /\ self.lines.data = <<>>
    /\ self.verts.data = <<>>
    /\ ret.val = FALSE

====
